---- MODULE Spec2Model ----
(***************************************************************************)
(* Model of serge-yudin/aigsol: the Indicators validator, the              *)
(* EsiosReeDataFetcher, the EsiosReeVisualizer (src/esios_ree/esios_ree.py)*)
(* and the FastAPI routes (src/main.py).                                   *)
(*                                                                         *)
(* Python values are tagged records, so that None, ints, dates, strings,   *)
(* lists and dicts can be stored in one variable and compared.             *)
(***************************************************************************)
EXTENDS Integers, Sequences, FiniteSets, TLC

\* ------------------------------------------------------------- bounds
\* indicator ids are 1..MaxId; dates are the days 1..MaxDay of January 2020
MaxId == 2
MaxDay == 3

\* ------------------------------------------------------ Python values
None == [type |-> "NoneType"]
PyInt(i) == [type |-> "int", val |-> i]
PyDate(d) == [type |-> "date", val |-> d]
PyStr(s) == [type |-> "str", val |-> s]
PyList(items) == [type |-> "list", items |-> items]

\* no exception raised
NoExc == [type |-> "none"]

Ids == {PyInt(i) : i \in 1..MaxId}
Dates == {PyDate(d) : d \in 1..MaxDay}

\* str(date): ISO format YYYY-MM-DD (what an f-string puts for a date)
IsoFormat(d) ==
    "2020-01-" \o (IF d.val < 10 THEN "0" ELSE "") \o ToString(d.val)

\* --------------------------------------------------------- Indicators
\* the fields in declaration order: pydantic validates them in this order
FieldOrder == <<"id", "start_date", "end_date">>

\* a validator's outcome: the value it returns, or the ValueError's message
Valid(v) == [ok |-> TRUE, val |-> v, msg |-> ""]
Invalid(m) == [ok |-> FALSE, val |-> None, msg |-> m]

start_date_drops_check(v, values) ==
    Valid(v)

start_date_must_be_before_end_date(v, values) ==
    IF "end_date" \in DOMAIN values /\ v.val >= values["end_date"].val
    THEN Invalid("start_date must be before end_date")
    ELSE Valid(v)

end_date_rejects_later(v, values) ==
    IF "start_date" \in DOMAIN values /\ v.val >= values["start_date"].val
    THEN Invalid("end_date must be after start_date")
    ELSE Valid(v)

end_date_must_be_after_start_date(v, values) ==
    IF "start_date" \in DOMAIN values /\ v.val <= values["start_date"].val
    THEN Invalid("end_date must be after start_date")
    ELSE Valid(v)

\* one field: the type check of the annotation (a required int or date:
\* None is refused), then the field's @validator with the values
\* validated so far
ValidateField(f, v, values) ==
    IF v = None THEN Invalid("none is not an allowed value")
    ELSE IF f = "start_date" THEN start_date_must_be_before_end_date(v, values)
    ELSE IF f = "end_date" THEN end_date_must_be_after_start_date(v, values)
    ELSE Valid(v)

\* pydantic's validate_model: the fields in order; a field that fails adds
\* an error and stays out of values, one that passes joins values
RECURSIVE ValidateModel(_, _, _, _, _)
ValidateModel(order, input, i, values, errors) ==
    IF i > Len(order) THEN [values |-> values, errors |-> errors]
    ELSE LET f == order[i]
             r == ValidateField(f, input[f], values)
         IN IF r.ok
            THEN ValidateModel(order, input, i + 1, values @@ (f :> r.val), errors)
            ELSE ValidateModel(order, input, i + 1, values,
                               Append(errors, [loc |-> f, msg |-> r.msg]))

\* BaseModel.__init__ after validate_model: the object, or ValidationError
\* carrying the errors
Built(r) ==
    IF r.errors = << >>
    THEN [exc |-> NoExc,
          obj |-> [id |-> r.values["id"],
                   start_date |-> r.values["start_date"],
                   end_date |-> r.values["end_date"]]]
    ELSE [exc |-> [type |-> "ValidationError", errors |-> r.errors],
          obj |-> None]

Construct(order, id, start_date, end_date) ==
    Built(ValidateModel(order,
                        [id |-> id, start_date |-> start_date, end_date |-> end_date],
                        1, << >>, << >>))

Indicators(id, start_date, end_date) ==
    Construct(FieldOrder, id, start_date, end_date)

\* ------------------------------------------------ EsiosReeDataFetcher
\* what the provider does with one GET: requests.get raises (exc), or a
\* response with a status code, a reason phrase and a body
NotJson == [type |-> "text"]
Series2 == [type |-> "dict",
            indicator |-> [values |-> <<[datetime |-> 1, value |-> 10],
                                        [datetime |-> 2, value |-> 20]>>]]
NoValues == [type |-> "dict", indicator |-> [values |-> << >>]]
NoIndicator == [type |-> "dict", errors |-> "unknown indicator"]

\* bodies of a success response: JSON documents (null among them), or text
\* that is not JSON
Bodies == {Series2, NoValues, NoIndicator, None, NotJson}

Upstreams ==
    {[exc |-> "ConnectionError", status_code |-> 0, reason |-> "", body |-> None]}
    \cup {[exc |-> "", status_code |-> 200, reason |-> "OK", body |-> b] : b \in Bodies}
    \cup {[exc |-> "", status_code |-> 404, reason |-> "Not Found", body |-> NoIndicator],
          [exc |-> "", status_code |-> 403, reason |-> "Forbidden", body |-> NoIndicator]}

\* Response.ok: the status code is below 400
ResultOk(result) == result.status_code < 400

\* what a call of a method gives back: the object after it, the value
\* returned (<< >> when it raised), the exception raised, the outbound GETs
Outcome(self, ret, exc, calls) ==
    [self |-> self, ret |-> ret, exc |-> exc, calls |-> calls]

check_api_key_never_raises(self) ==
    NoExc

check_api_key(self) ==
    IF self.api_key = None
    THEN [type |-> "TypeError",
          args |-> <<"Provide an API key. You can request your personal token at consultasios@ree.es">>]
    ELSE NoExc

\* EsiosReeDataFetcher(api_key): a raise in __init__ leaves the caller
\* without an instance
EsiosReeDataFetcher(api_key) ==
    LET self == [type |-> "EsiosReeDataFetcher",
                 api_key |-> api_key,
                 data |-> None,
                 main_url |-> "https://api.esios.ree.es/",
                 str |-> ""]
        e == check_api_key(self)
    IN IF e = NoExc
       THEN Outcome(self, None, NoExc, << >>)
       ELSE Outcome(None, << >>, e, << >>)

data(self) == self.data

fetch_data_stores_any_body(self, url, upstream) ==
    LET get == [url |-> url, x_api_key |-> self.api_key]
    IN IF upstream.exc # ""
       THEN Outcome(self, << >>, [type |-> upstream.exc], <<get>>)
       ELSE IF upstream.body = NotJson
       THEN Outcome(self, << >>, [type |-> "JSONDecodeError"], <<get>>)
       ELSE IF ~ResultOk(upstream)
       THEN Outcome([self EXCEPT !.data = upstream.body],
                    <<FALSE, PyStr(upstream.reason)>>, NoExc, <<get>>)
       ELSE Outcome([self EXCEPT !.data = upstream.body], <<TRUE, None>>, NoExc, <<get>>)

fetch_data_retries(self, url, upstream) ==
    LET get == [url |-> url, x_api_key |-> self.api_key]
    IN IF upstream.exc # ""
       THEN Outcome(self, << >>, [type |-> upstream.exc], <<get>>)
       ELSE IF ~ResultOk(upstream)
       THEN Outcome(self, <<FALSE, PyStr(upstream.reason)>>, NoExc, <<get, get>>)
       ELSE IF upstream.body = NotJson
       THEN Outcome(self, << >>, [type |-> "JSONDecodeError"], <<get>>)
       ELSE Outcome([self EXCEPT !.data = upstream.body], <<TRUE, None>>, NoExc, <<get>>)

\* __fetch_data: one requests.get; result.json() of a body that is not JSON
\* raises
fetch_data(self, url, upstream) ==
    LET get == [url |-> url, x_api_key |-> self.api_key]
    IN IF upstream.exc # ""
       THEN Outcome(self, << >>, [type |-> upstream.exc], <<get>>)
       ELSE IF ~ResultOk(upstream)
       THEN Outcome(self, <<FALSE, PyStr(upstream.reason)>>, NoExc, <<get>>)
       ELSE IF upstream.body = NotJson
       THEN Outcome(self, << >>, [type |-> "JSONDecodeError"], <<get>>)
       ELSE Outcome([self EXCEPT !.data = upstream.body], <<TRUE, None>>, NoExc, <<get>>)

IndicatorsUrl(self, indicators) ==
    self.main_url \o "indicators/" \o ToString(indicators.id.val)
        \o "?start_date=" \o IsoFormat(indicators.start_date)
        \o "&end_date=" \o IsoFormat(indicators.end_date)

SummaryOf(indicators) ==
    "Demanda Real " \o ToString(indicators.id.val)
        \o ". De " \o IsoFormat(indicators.start_date)
        \o " a " \o IsoFormat(indicators.end_date)

after_fetch_forgets_summary(indicators, f) ==
    IF f.exc # NoExc THEN f
    ELSE IF ~f.ret[1] THEN f
    ELSE Outcome(f.self, <<TRUE, data(f.self)>>, NoExc, f.calls)

\* lines 99-102: what follows the call of __fetch_data
after_fetch(indicators, f) ==
    IF f.exc # NoExc THEN f
    ELSE IF ~f.ret[1] THEN f
    ELSE Outcome([f.self EXCEPT !.str = SummaryOf(indicators)],
                 <<TRUE, data(f.self)>>, NoExc, f.calls)

try_body_sets_summary_first(self, indicators, upstream) ==
    after_fetch(indicators,
                fetch_data([self EXCEPT !.str = SummaryOf(indicators)],
                           IndicatorsUrl(self, indicators), upstream))

\* lines 97-102: the try body once Indicators(...) has returned
try_body(self, indicators, upstream) ==
    after_fetch(indicators,
                fetch_data(self, IndicatorsUrl(self, indicators), upstream))

\* lines 94-104: v is what Indicators(...) gave; ValidationError is caught
\* and its errors returned
try_except(self, v, upstream) ==
    IF v.exc # NoExc
    THEN Outcome(self, <<FALSE, PyList(v.exc.errors)>>, NoExc, << >>)
    ELSE try_body(self, v.obj, upstream)

get_data_of_indicators(self, id, start_date, end_date, upstream) ==
    try_except(self, Indicators(id, start_date, end_date), upstream)

meta_info(self) == self.str

\* -------------------------------------------------- EsiosReeVisualizer
\* complex numbers are pairs <<re, im>>
CAdd(a, b) == <<a[1] + b[1], a[2] + b[2]>>
CMul(a, b) == <<a[1] * b[1] - a[2] * b[2], a[1] * b[2] + a[2] * b[1]>>

\* exp(-2 pi i m / n), exact for the lengths n that divide 4
Twiddle(n, m) ==
    LET q == ((4 \div n) * m) % 4
    IN IF q = 0 THEN <<1, 0>>
       ELSE IF q = 1 THEN <<0, -1>>
       ELSE IF q = 2 THEN <<-1, 0>>
       ELSE <<0, 1>>

RECURSIVE DftSum(_, _, _)
DftSum(vals, k, j) ==
    IF j = 0 THEN <<0, 0>>
    ELSE CAdd(DftSum(vals, k, j - 1),
              CMul(<<vals[j], 0>>, Twiddle(Len(vals), k * (j - 1))))

\* scipy.fft.fft: the discrete Fourier transform, as long as its input
fft_out(vals) ==
    [k \in 1..Len(vals) |-> DftSum(vals, k - 1, Len(vals))]

\* a DataFrame column: the records' field, in the records' order
Column(records, field) ==
    [i \in 1..Len(records) |-> records[i][field]]

save_as_bytes(fig) ==
    [type |-> "BytesIO", value |-> [format |-> "PNG", fig |-> fig]]

\* BytesIO.getvalue(): the whole content, wherever the position is
getvalue(img) == img.value

draw_indicators(dat, title) ==
    IF dat = None
    THEN [exc |-> [type |-> "TypeError"], ret |-> None]
    ELSE IF "indicator" \notin DOMAIN dat
    THEN [exc |-> [type |-> "KeyError"], ret |-> None]
    ELSE IF dat.indicator.values = << >>
    THEN [exc |-> [type |-> "AttributeError"], ret |-> None]
    ELSE LET records == dat.indicator.values
             datetimes == Column(records, "datetime")
             vals == Column(records, "value")
             fig == [suptitle |-> title,
                     axes |-> <<[x |-> datetimes, y |-> vals],
                                [x |-> datetimes, y |-> fft_out(vals)]>>]
         IN [exc |-> NoExc, ret |-> save_as_bytes(fig)]

\* ------------------------------------------------------------ main.py
\* what a route handler does: the Response it returns or the exception it
\* raises, with the outbound GETs, the draw_indicators calls and the
\* (res, error) pair of the fetch
Handled(ret, exc, calls, viz, res) ==
    [ret |-> ret, exc |-> exc, calls |-> calls, viz |-> viz, res |-> res]

HTTPException(status_code, detail) ==
    [type |-> "HTTPException", status_code |-> status_code, detail |-> detail]

index ==
    Handled([status_code |-> 200, media_type |-> "application/json",
             content |-> [message |-> "To get visualization of Demanda Real use GET request to /indicators"]],
            NoExc, << >>, << >>, << >>)

\* lines 49-50: img is what draw_indicators gave for the fetcher's data
\* and meta_info()
respond_with_image(g, img) ==
    IF img.exc # NoExc
    THEN Handled(None, img.exc, g.calls,
                 <<[data |-> data(g.self), title |-> meta_info(g.self)]>>, g.ret)
    ELSE Handled([status_code |-> 200, media_type |-> "image/png",
                  content |-> getvalue(img.ret)],
                 NoExc, g.calls,
                 <<[data |-> data(g.self), title |-> meta_info(g.self)]>>, g.ret)

\* lines 47-51: g is what get_data_of_indicators gave
respond_to_fetch(g) ==
    IF g.exc # NoExc
    THEN Handled(None, g.exc, g.calls, << >>, << >>)
    ELSE IF g.ret[1]
    THEN respond_with_image(g, draw_indicators(data(g.self), meta_info(g.self)))
    ELSE Handled(None, HTTPException(422, g.ret[2]), g.calls, << >>, g.ret)

\* lines 41-46: c is what EsiosReeDataFetcher(API_KEY) gave; the except
\* clause reads e.message, an attribute the exception may not have
fetch_with(c, indicators, upstream) ==
    IF c.exc # NoExc
    THEN IF "message" \in DOMAIN c.exc
         THEN Handled(None, HTTPException(401, c.exc.message), << >>, << >>, << >>)
         ELSE Handled(None, [type |-> "AttributeError"], << >>, << >>, << >>)
    ELSE respond_to_fetch(
             get_data_of_indicators(c.self, indicators.id, indicators.start_date,
                                    indicators.end_date, upstream))

\* lines 40-46: v is what Indicators(...) gave, outside any try
validated(api_key, v, upstream) ==
    IF v.exc # NoExc
    THEN Handled(None, v.exc, << >>, << >>, << >>)
    ELSE fetch_with(EsiosReeDataFetcher(api_key), v.obj, upstream)

get_indicators(api_key, id, start_date, end_date, upstream) ==
    validated(api_key, Indicators(id, start_date, end_date), upstream)

\* FastAPI around a handler: a returned Response goes out as it is, an
\* HTTPException as its status with {"detail": ...}, any other exception
\* is unhandled and the server answers 500
Serve(h) ==
    IF h.exc = NoExc
    THEN [status_code |-> h.ret.status_code, media_type |-> h.ret.media_type,
          content |-> h.ret.content, unhandled |-> ""]
    ELSE IF h.exc.type = "HTTPException"
    THEN [status_code |-> h.exc.status_code, media_type |-> "application/json",
          content |-> [detail |-> h.exc.detail], unhandled |-> ""]
    ELSE [status_code |-> 500, media_type |-> "text/plain",
          content |-> PyStr("Internal Server Error"), unhandled |-> h.exc.type]

\* ============================================================== state
VARIABLES
    vin,        \* Indicators: the arguments of the last construction
    vout,       \* Indicators: its outcome
    fetcher,    \* the EsiosReeDataFetcher instance (None before it exists)
    op,         \* the fetcher's last operation, what it gave back, its GETs
    lastOk,     \* arguments and body of the last call that returned True
    API_KEY,    \* credentials.API_KEY
    request,    \* the service's last request
    upstream,   \* what the provider would answer to it
    response,   \* the response the client got
    outbound,   \* the GETs sent while handling it
    vizCalls,   \* the draw_indicators calls made while handling it
    fetched     \* the (res, error) pair get_data_of_indicators returned

vars == <<vin, vout, fetcher, op, lastOk,
          API_KEY, request, upstream, response, outbound, vizCalls, fetched>>
validatorVars == <<vin, vout>>
fetcherVars == <<fetcher, op, lastOk>>
serviceVars == <<API_KEY, request, upstream, response, outbound, vizCalls, fetched>>

Keys == {None, PyStr(""), PyStr("secret")}

\* the six orders in which three fields can be validated
Orders ==
    {o \in [1..3 -> {"id", "start_date", "end_date"}] :
        {o[i] : i \in 1..3} = {"id", "start_date", "end_date"}}

Init ==
    /\ vin = None
    /\ vout = None
    /\ fetcher = None
    /\ op = [name |-> "none"]
    /\ lastOk = None
    /\ API_KEY \in Keys
    /\ request = None
    /\ upstream = None
    /\ response = None
    /\ outbound = << >>
    /\ vizCalls = << >>
    /\ fetched = << >>

\* ------------------------------------------------------------ actions
Validate ==
    \E order \in Orders, id \in Ids \cup {None},
       start_date \in Dates \cup {None}, end_date \in Dates \cup {None} :
        /\ vin' = [order |-> order, id |-> id,
                   start_date |-> start_date, end_date |-> end_date]
        /\ vout' = Construct(order, id, start_date, end_date)
        /\ UNCHANGED <<fetcherVars, serviceVars>>

\* the fetcher's state after an operation that gave c
AfterInit(api_key, c) ==
    /\ fetcher' = c.self
    /\ op' = [name |-> "__init__", api_key |-> api_key,
              ret |-> c.ret, exc |-> c.exc, gets |-> Len(c.calls)]
    /\ UNCHANGED lastOk

AfterCall(id, start_date, end_date, up, g) ==
    /\ fetcher' = g.self
    /\ op' = [name |-> "get_data_of_indicators",
              ret |-> g.ret, exc |-> g.exc, gets |-> Len(g.calls)]
    /\ lastOk' = IF g.exc = NoExc /\ g.ret[1]
                 THEN [id |-> id, start_date |-> start_date,
                       end_date |-> end_date, body |-> up.body]
                 ELSE lastOk

NewFetcher ==
    /\ fetcher = None
    /\ \E api_key \in Keys : AfterInit(api_key, EsiosReeDataFetcher(api_key))
    /\ UNCHANGED <<validatorVars, serviceVars>>

GetDataOfIndicators ==
    /\ fetcher # None
    /\ \E id \in Ids \cup {None}, start_date \in Dates \cup {None},
          end_date \in Dates \cup {None}, up \in Upstreams :
        AfterCall(id, start_date, end_date, up,
                  get_data_of_indicators(fetcher, id, start_date, end_date, up))
    /\ UNCHANGED <<validatorVars, serviceVars>>

\* the service's record of a request handled with outcome h
Answered(req, up, h) ==
    /\ request' = req
    /\ upstream' = up
    /\ response' = Serve(h)
    /\ outbound' = h.calls
    /\ vizCalls' = h.viz
    /\ fetched' = h.res
    /\ UNCHANGED <<API_KEY, validatorVars, fetcherVars>>

GetIndex ==
    Answered([route |-> "/"], None, index)

GetIndicators ==
    \E id \in Ids, start_date \in Dates, end_date \in Dates, up \in Upstreams :
        Answered([route |-> "/indicators", id |-> id,
                  start_date |-> start_date, end_date |-> end_date],
                 up, get_indicators(API_KEY, id, start_date, end_date, up))

\* the HTTP service
Next == GetIndex \/ GetIndicators
Spec == Init /\ [][Next]_vars

\* the classes used as a library: credentials.API_KEY plays no part
LibraryInit == Init /\ API_KEY = None

\* one fetcher, any sequence of calls
FetcherNext == NewFetcher \/ GetDataOfIndicators
FetcherSpec == LibraryInit /\ [][FetcherNext]_vars

\* the validator alone
ValidatorNext == Validate
ValidatorSpec == LibraryInit /\ [][ValidatorNext]_vars

\* ============================================================= claims
\* the summary a fetch of r.id between r.start_date and r.end_date is to
\* leave, written out for the days of January 2020 below the 10th
ExpectedSummary(r) ==
    "Demanda Real " \o ToString(r.id.val)
        \o ". De 2020-01-0" \o ToString(r.start_date.val)
        \o " a 2020-01-0" \o ToString(r.end_date.val)

\* the last construction of Indicators had an id and two dates
HasDates == vin # None /\ vin.start_date # None /\ vin.end_date # None
\* the last request went to /indicators
ToIndicators == request # None /\ request.route = "/indicators"
\* the last fetcher operation was a get_data_of_indicators that failed
FailedCall(o) ==
    /\ o.name = "get_data_of_indicators"
    /\ (o.exc # NoExc \/ ~o.ret[1])

\* C1: an integer id with start_date strictly before end_date is accepted,
\* and the object carries exactly the three values given.
C1_ValidRangeAccepted ==
    (HasDates /\ vin.id # None /\ vin.start_date.val < vin.end_date.val)
    => /\ vout.exc = NoExc
       /\ vout.obj = [id |-> vin.id, start_date |-> vin.start_date,
                      end_date |-> vin.end_date]

C1_Witness ==
    /\ HasDates /\ vin.id = PyInt(2) /\ vin.order = FieldOrder
    /\ vin.start_date = PyDate(1) /\ vin.end_date = PyDate(2)
    /\ vout.exc = NoExc

\* C2: start_date >= end_date (equal dates too) fails with a
\* ValidationError whose errors name start_date or end_date, in whichever
\* order the fields are validated.
C2_BadRangeRejected ==
    (HasDates /\ vin.start_date.val >= vin.end_date.val)
    => /\ vout.exc.type = "ValidationError"
       /\ \E i \in 1..Len(vout.exc.errors) :
            vout.exc.errors[i].loc \in {"start_date", "end_date"}

C2_Witness ==
    /\ HasDates /\ vin.start_date = vin.end_date
    /\ vin.order = <<"end_date", "start_date", "id">>
    /\ vout.exc.type = "ValidationError"
    /\ vout.exc.errors[1].loc = "start_date"

\* C3: a non-success upstream status with reason R for a validated request:
\* get_data_of_indicators returns (False, R) after exactly one GET, the
\* Visualizer is not called, and the handler answers 422 with detail R.
C3_UpstreamFailure ==
    (/\ ToIndicators /\ API_KEY # None
     /\ request.start_date.val < request.end_date.val
     /\ upstream.exc = "" /\ upstream.status_code >= 400)
    => /\ fetched = <<FALSE, PyStr(upstream.reason)>>
       /\ Len(outbound) = 1
       /\ vizCalls = << >>
       /\ response.status_code = 422
       /\ response.content = [detail |-> PyStr(upstream.reason)]
       /\ response.unhandled = ""

C3_Witness ==
    /\ ToIndicators /\ API_KEY = PyStr("secret")
    /\ upstream.exc = "" /\ upstream.reason = "Not Found"
    /\ Len(outbound) = 1
    /\ response.status_code = 422
    /\ response.content = [detail |-> PyStr("Not Found")]

\* C4: a request whose start_date is not strictly before its end_date is
\* answered 422, and no GET is sent while handling it.
C4_ReversedDates422 ==
    (ToIndicators /\ request.start_date.val >= request.end_date.val)
    => /\ response.status_code = 422
       /\ outbound = << >>

\* C5 as stated: construction with None or with the empty string fails on
\* every attempt, leaves no instance, and sends no GET.
C5_EmptyOrMissingKeyFails ==
    (op.name = "__init__" /\ op.api_key \in {None, PyStr("")})
    => /\ op.exc # NoExc
       /\ fetcher = None
       /\ op.gets = 0

\* C5 amended: construction with a missing credential (None) raises
\* TypeError on every attempt, leaves no instance and sends no GET; any
\* string, the empty one included, is accepted and gives an instance.
C5_MissingKeyFails ==
    op.name = "__init__"
    => /\ op.gets = 0
       /\ IF op.api_key = None
          THEN op.exc.type = "TypeError" /\ fetcher = None
          ELSE op.exc = NoExc /\ fetcher # None /\ fetcher.api_key = op.api_key

C5_Witness ==
    /\ op.name = "__init__" /\ op.api_key = None
    /\ op.exc.type = "TypeError"
    /\ fetcher = None

\* C6: with the credential missing, the handler answers 401 with the
\* construction failure's message as detail, and neither a fetch nor the
\* Visualizer is invoked.
C6_MissingKey401 ==
    (/\ ToIndicators /\ API_KEY = None
     /\ request.start_date.val < request.end_date.val)
    => /\ response.status_code = 401
       /\ response.content = [detail |-> PyStr("Provide an API key. You can request your personal token at consultasios@ree.es")]
       /\ response.unhandled = ""
       /\ outbound = << >>
       /\ vizCalls = << >>

\* the request passed validation and its GET was answered with a success
\* status
FetchSucceeded ==
    /\ ToIndicators /\ API_KEY # None
    /\ request.start_date.val < request.end_date.val
    /\ upstream.exc = "" /\ upstream.status_code < 400

C8_SummaryOfLastSuccess ==
    /\ [](fetcher # None
          => meta_info(fetcher) =
                IF lastOk = None THEN "" ELSE ExpectedSummary(lastOk))
    /\ [][FailedCall(op') => meta_info(fetcher') = meta_info(fetcher)]_vars

C8_Witness ==
    /\ fetcher # None /\ lastOk # None
    /\ FailedCall(op) /\ op.exc = NoExc
    /\ op.ret[2] = PyStr("Not Found")
    /\ meta_info(fetcher) = "Demanda Real 1. De 2020-01-02 a 2020-01-03"

\* C9: every /indicators request ends in 200 image/png, 401 or 422 with a
\* JSON detail; no failure leaves the handler as an unhandled exception.
C9_EveryFailureResolved ==
    ToIndicators
    => /\ response.unhandled = ""
       /\ \/ response.status_code = 200 /\ response.media_type = "image/png"
          \/ response.status_code \in {401, 422}
             /\ response.media_type = "application/json"

\* C10 as stated: data is None exactly when the summary is empty; otherwise
\* data is the body of the most recent successful call and the summary
\* names that call.
C10_DataNoneIffNoSummary ==
    fetcher # None
    => /\ (data(fetcher) = None) <=> (meta_info(fetcher) = "")
       /\ meta_info(fetcher) # ""
          => /\ lastOk # None
             /\ data(fetcher) = lastOk.body
             /\ meta_info(fetcher) = ExpectedSummary(lastOk)

\* C10 amended: data and meta_info() describe the same fetch: before any
\* successful call data is None and the summary is empty; afterwards the
\* summary names the most recent successful call and data is the body it
\* returned (None when that body was the JSON null); a failed call changes
\* neither.
C10_DataAndSummaryAgree ==
    /\ [](fetcher # None
          => IF lastOk = None
             THEN data(fetcher) = None /\ meta_info(fetcher) = ""
             ELSE /\ data(fetcher) = lastOk.body
                  /\ meta_info(fetcher) = ExpectedSummary(lastOk))
    /\ [][FailedCall(op')
          => /\ data(fetcher') = data(fetcher)
             /\ meta_info(fetcher') = meta_info(fetcher)]_vars

C10_Witness ==
    /\ fetcher # None /\ lastOk # None
    /\ FailedCall(op) /\ op.exc = NoExc
    /\ op.ret[2] = PyStr("Forbidden")
    /\ data(fetcher) = Series2
    /\ meta_info(fetcher) = "Demanda Real 2. De 2020-01-01 a 2020-01-02"

====
